---------------------------- MODULE Spec2Model ----------------------------
(***************************************************************************)
(* State-machine model of src/app.py: the Flask application's request      *)
(* handlers, the three PostgreSQL tables they read and write, the          *)
(* Flask-Login session state and the outbound mail side effect.            *)
(*                                                                         *)
(* Text values are sequences of one-character strings so that str.strip()  *)
(* can be modelled by what it does.  Every request is one action; its      *)
(* inputs (session, form fields, the point at which the store or the mail  *)
(* relay fails) are drawn from small sets.  The variable `last` records    *)
(* the request just handled, the store/mail events it performed in order,  *)
(* and its response.                                                       *)
(*                                                                         *)
(* Not modelled: the flask_limiter rate limits (lines 49-53, 237), which   *)
(* answer before any handler runs and independently of its inputs, and the *)
(* created_at/updated_at timestamps: ORDER BY created_at DESC is modelled  *)
(* as descending SERIAL id, both being assigned in insertion order.        *)
(***************************************************************************)
EXTENDS Integers, Sequences, FiniteSets, TLC

\* ------------------------------------------------------------------ bounds
\* Highest value the blog_posts id sequence may reach (INSERT attempts).
MaxPostSerial == 3
\* Highest value the contact_messages id sequence may reach.
MaxMessageSerial == 2

\* --------------------------------------------------------------- constants
NoUser == 0
Sessions == {"s1", "s2"}
Whitespace == {" "}

\* Store / mail events a request performs, in order.
EvConnect == "connect"
EvClose == "close"
EvCommit == "COMMIT"
EvRollback == "ROLLBACK"
EvMailSend == "mail.send"
SqlUserByName == "SELECT users WHERE username"
SqlUserById == "SELECT users WHERE id"
SqlPosts == "SELECT blog_posts ORDER BY created_at DESC"
SqlPostBySlug == "SELECT blog_posts WHERE slug"
SqlInsertMessage == "INSERT contact_messages"
SqlCountPosts == "SELECT COUNT blog_posts"
SqlCountMessages == "SELECT COUNT contact_messages"
SqlRecentPosts == "SELECT blog_posts LIMIT 5"
SqlInsertPost == "INSERT blog_posts"
SqlMessages == "SELECT contact_messages ORDER BY created_at DESC"
SqlDeletePost == "DELETE blog_posts WHERE id"

\* Flashed messages.
FlashThanks ==
    "Thank you for reaching out. We will respond within 24-48 hours."
FlashFillAll == "Please fill in all fields."
FlashInvalidLogin == "Invalid username or password."
FlashLoggedOut == "You have been logged out."
FlashPleaseLogIn == "Please log in to access this page."
FlashPostCreated == "Blog post created successfully!"
FlashSlugExists == "Slug already exists."
FlashFillRequired == "Please fill in all required fields."
FlashPostDeleted == "Blog post deleted."

\* Where a request may fail: nowhere, in load_user's connect or statement,
\* in the handler's own connect or first statement, or in mail.send.
Faults == {"none", "load_user.connect", "load_user.execute",
           "connect", "execute", "mail"}

\* --------------------------------------------------------------- variables
VARIABLES users, session, blog_posts, blog_posts_id_seq,
          contact_messages, contact_messages_id_seq, outbox, last

vars == <<users, session, blog_posts, blog_posts_id_seq,
          contact_messages, contact_messages_id_seq, outbox, last>>

\* -------------------------------------------------------------------- text
RECURSIVE lstrip(_)
lstrip(s) ==
    IF s # <<>> /\ Head(s) \in Whitespace THEN lstrip(Tail(s)) ELSE s

RECURSIVE rstrip(_)
rstrip(s) ==
    IF s # <<>> /\ s[Len(s)] \in Whitespace
    THEN rstrip(SubSeq(s, 1, Len(s) - 1)) ELSE s

\* str.strip()
strip(s) == rstrip(lstrip(s))

\* Mutant: a check that takes every field for filled in.
truthy_always(s) == TRUE

\* Python truthiness of a str
truthy(s) == s # <<>>

\* ------------------------------------------------------------- credentials
\* A werkzeug password hash: salted and one-way, so all the model keeps of
\* it is which plaintext it was generated from.
generate_password_hash(password) == [method |-> "scrypt", of |-> password]

\* Mutant: a verifier that accepts any password.
check_password_hash_any(pwhash, password) == TRUE

check_password_hash(pwhash, password) == pwhash.of = password

\* The accounts provisioned out of band.
ProvisionedUsers ==
    { [id |-> 1, username |-> <<"a">>,
       password_hash |-> generate_password_hash(<<"p">>)],
      [id |-> 2, username |-> <<"b">>,
       password_hash |-> generate_password_hash(<<"q">>)] }

\* ------------------------------------------------------------------ inputs
Methods == {"GET", "POST"}

\* Login forms <<username, password>>: the two accounts' credentials, those
\* of the first padded with whitespace, a wrong password for each account,
\* and a username no account has.
LoginForms ==
    { << <<"a">>, <<"p">> >>,
      << <<" ", "a">>, <<"p", " ">> >>,
      << <<"b">>, <<"q">> >>,
      << <<"a">>, <<"q">> >>,
      << <<"b">>, <<"p">> >>,
      << <<"c">>, <<"p">> >> }

\* Contact forms <<name, email, message>>: two valid ones, one of them
\* padded with whitespace, and one with each required field blank.
ContactForms ==
    { << <<" ", "n">>, <<"e">>, <<"m", " ">> >>,
      << <<"o">>, <<"e">>, <<"m">> >>,
      << <<>>, <<"e">>, <<"m">> >>,
      << <<"n">>, <<" ">>, <<"m">> >>,
      << <<"n">>, <<"e">>, <<>> >> }

\* New-post forms <<title, slug, body, tags>>: two valid ones with the same
\* slug once trimmed, one whose slug holds a "/", and one with each required
\* field blank.
PostForms ==
    { << <<" ", "t">>, <<"x">>, <<"b", " ">>, <<"g", " ">> >>,
      << <<"u">>, <<"x", " ">>, <<"c">>, <<>> >>,
      << <<"t">>, <<"x", "/", "y">>, <<"b">>, <<>> >>,
      << <<>>, <<"z">>, <<"b">>, <<>> >>,
      << <<"t">>, <<" ">>, <<"b">>, <<>> >>,
      << <<"t">>, <<"z">>, <<" ">>, <<"g">> >> }

\* Slugs a client asks GET /blog/<slug> for.
SlugPaths == {<<"x">>, <<"x", " ">>, <<"x", "/", "y">>, <<"z">>}
\* Ids a client asks POST /admin/blog/delete/<id> for: every id the sequence
\* can have issued, and one it has not.
PostIds == 1 .. (MaxPostSerial + 1)

\* --------------------------------------------------------------- responses
NoData == [posts |-> <<>>, messages |-> <<>>, counts |-> <<>>]

render_template(template, flashed, data) ==
    [kind |-> "render", target |-> template, flash |-> flashed, data |-> data]

redirect(endpoint, flashed) ==
    [kind |-> "redirect", target |-> endpoint, flash |-> flashed,
     data |-> NoData]

\* An exception that leaves the view function: Flask answers 500.
InternalServerError ==
    [kind |-> "error", target |-> "500", flash |-> "", data |-> NoData]

\* No URL rule matches the path: Flask answers 404 and runs no view.
NotFound ==
    [kind |-> "error", target |-> "404", flash |-> "", data |-> NoData]

\* LoginManager.unauthorized() with login_view = "login".
unauthorized == redirect("login", FlashPleaseLogIn)

\* ------------------------------------------------------------------- store
\* The rows of a table as a list, newest (highest id) first.
RECURSIVE newest_first(_)
newest_first(rows) ==
    IF rows = {} THEN <<>>
    ELSE LET r == CHOOSE x \in rows : \A y \in rows : y.id <= x.id
         IN  <<r>> \o newest_first(rows \ {r})

\* conn = get_db_connection(); cur.execute(stmt); fetch; cur.close();
\* conn.close() with nothing guarding the close: when the statement raises,
\* the function is left with the connection still open.
unguarded_query(stmt, fault, connectFault, executeFault, rows) ==
    IF fault = connectFault
    THEN [trace |-> <<>>, raised |-> TRUE, rows |-> {}]
    ELSE IF fault = executeFault
    THEN [trace |-> <<EvConnect, stmt>>, raised |-> TRUE, rows |-> {}]
    ELSE [trace |-> <<EvConnect, stmt, EvClose>>, raised |-> FALSE,
          rows |-> rows]

\* User.get_by_username
get_by_username(username, fault) ==
    unguarded_query(SqlUserByName, fault, "connect", "execute",
                    {u \in users : u.username = username})

\* User.get_by_id
get_by_id(user_id, fault) ==
    unguarded_query(SqlUserById, fault, "load_user.connect",
                    "load_user.execute", {u \in users : u.id = user_id})

load_user(user_id, fault) == get_by_id(user_id, fault)

\* ------------------------------------------------------------- flask_login
\* current_user: Flask-Login calls the user_loader only for a session that
\* carries a user id; no row means the request is anonymous.
current_user(s, fault) ==
    IF session[s] = NoUser
    THEN [trace |-> <<>>, raised |-> FALSE, rows |-> {}]
    ELSE load_user(session[s], fault)

\* Mutant: a guard that lets every request through.
is_authenticated_always(cu) == ~cu.raised

is_authenticated(cu) == ~cu.raised /\ cu.rows # {}

\* The session's state as the next request will find it.
Authenticated(s) == \E u \in users : u.id = session[s]

Request(op, method, s, args, id) ==
    [op |-> op, method |-> method, sess |-> s, args |-> args, id |-> id]

\* What a request leaves behind: the events it performed and its response.
Handled(req, trace, resp) ==
    last' = [req |-> req, trace |-> trace, resp |-> resp]

\* A view that ends in render_template: Flask-Login's context processor
\* evaluates current_user while rendering, unless login_required already did.
render_view(trace, cu, template, flashed, data) ==
    [trace |-> trace \o cu.trace,
     resp |-> IF cu.raised THEN InternalServerError
              ELSE render_template(template, flashed, data)]

rendered(req, trace, cu, template, flashed, data) ==
    LET v == render_view(trace, cu, template, flashed, data)
    IN  Handled(req, v.trace, v.resp)

\* ------------------------------------------------------------------- Init
Init ==
    /\ users = ProvisionedUsers
    /\ session = [s \in Sessions |-> NoUser]
    /\ blog_posts = {}
    /\ blog_posts_id_seq = 0
    /\ contact_messages = {}
    /\ contact_messages_id_seq = 0
    /\ outbox = <<>>
    /\ last = [req |-> Request("startup", "", "s1", <<>>, 0), trace |-> <<>>,
               resp |-> NoData]

\* What login_required leaves for the view's render_template: current_user
\* was already evaluated for this request and is not looked up again.
already_loaded == [trace |-> <<>>, raised |-> FALSE, rows |-> {}]

\* ----------------------------------------------------------- public routes
\* home, about, modalities, approach, faq and the trainings pages: a
\* template and nothing else.
home(s, fault) ==
    /\ rendered(Request("home", "GET", s, <<>>, 0), <<>>,
                current_user(s, fault), "home.html", "", NoData)
    /\ UNCHANGED <<users, session, blog_posts, blog_posts_id_seq,
                   contact_messages, contact_messages_id_seq, outbox>>

blog(s, fault) ==
    LET req == Request("blog", "GET", s, <<>>, 0)
        q == unguarded_query(SqlPosts, fault, "connect", "execute",
                             blog_posts)
    IN  /\ IF q.raised
           THEN Handled(req, q.trace, InternalServerError)
           ELSE rendered(req, q.trace, current_user(s, fault), "blog.html",
                         "", [NoData EXCEPT !.posts = newest_first(q.rows)])
        /\ UNCHANGED <<users, session, blog_posts, blog_posts_id_seq,
                       contact_messages, contact_messages_id_seq, outbox>>

\* The rule "/blog/<slug>": the default converter takes one path segment,
\* that is, a non-empty text without "/".
slug_rule_matches(slug) ==
    slug # <<>> /\ \A i \in 1 .. Len(slug) : slug[i] # "/"

\* What GET /blog/<slug> performs and answers in the current state.
blog_post_view(s, slug, fault) ==
    LET q == unguarded_query(SqlPostBySlug, fault, "connect", "execute",
                             {p \in blog_posts : p.slug = slug})
    IN  IF ~slug_rule_matches(slug)
        THEN [trace |-> <<>>, resp |-> NotFound]
        ELSE IF q.raised
        THEN [trace |-> q.trace, resp |-> InternalServerError]
        ELSE IF q.rows = {}
        THEN [trace |-> q.trace, resp |-> redirect("blog", "")]
        ELSE render_view(q.trace, current_user(s, fault), "blog_post.html",
                         "", [NoData EXCEPT !.posts = newest_first(q.rows)])

blog_post(s, slug, fault) ==
    LET v == blog_post_view(s, slug, fault)
    IN  /\ Handled(Request("blog_post", "GET", s, <<slug>>, 0), v.trace,
                   v.resp)
        /\ UNCHANGED <<users, session, blog_posts, blog_posts_id_seq,
                       contact_messages, contact_messages_id_seq, outbox>>

\* Mutant: an INSERT that binds name and email to each other's column.
contact_row_swapped(id, name, email, message) ==
    [id |-> id, name |-> email, email |-> name, message |-> message]

\* INSERT INTO contact_messages (name, email, message) VALUES (%s, %s, %s)
contact_row(id, name, email, message) ==
    [id |-> id, name |-> name, email |-> email, message |-> message]

contact(s, method, form_name, form_email, form_message, fault) ==
    LET req == Request("contact", method, s,
                       <<form_name, form_email, form_message>>, 0)
        name == strip(form_name)
        email == strip(form_email)
        message == strip(form_message)
        row == contact_row(contact_messages_id_seq + 1, name, email, message)
        msg == [name |-> name, email |-> email, message |-> message]
    IN  IF method = "POST" /\ truthy(name) /\ truthy(email) /\ truthy(message)
        THEN IF fault = "connect"
             THEN /\ Handled(req, <<>>, InternalServerError)
                  /\ UNCHANGED <<users, session, blog_posts, blog_posts_id_seq,
                                 contact_messages, contact_messages_id_seq,
                                 outbox>>
             ELSE IF fault = "execute"
             THEN /\ Handled(req, <<EvConnect, SqlInsertMessage>>,
                             InternalServerError)
                  /\ UNCHANGED <<users, session, blog_posts, blog_posts_id_seq,
                                 contact_messages, contact_messages_id_seq,
                                 outbox>>
             ELSE /\ contact_messages_id_seq < MaxMessageSerial
                  /\ contact_messages' = contact_messages \cup {row}
                  /\ contact_messages_id_seq' = contact_messages_id_seq + 1
                  /\ IF fault = "mail"
                     THEN /\ outbox' = outbox
                          /\ Handled(req, <<EvConnect, SqlInsertMessage,
                                            EvCommit, EvClose, EvMailSend>>,
                                     InternalServerError)
                     ELSE /\ outbox' = Append(outbox, msg)
                          /\ Handled(req, <<EvConnect, SqlInsertMessage,
                                            EvCommit, EvClose, EvMailSend>>,
                                     redirect("contact", FlashThanks))
                  /\ UNCHANGED <<users, session, blog_posts, blog_posts_id_seq>>
        ELSE /\ rendered(req, <<>>, current_user(s, fault), "contact.html",
                         IF method = "POST" THEN FlashFillAll ELSE "",
                         NoData)
             /\ UNCHANGED <<users, session, blog_posts, blog_posts_id_seq,
                            contact_messages, contact_messages_id_seq, outbox>>

\* login_user(user): the session now carries the user's id.
login_user(s, user) == session' = [session EXCEPT ![s] = user.id]

\* Mutant: a logout that leaves the session as it was.
logout_user_noop(s) == session' = session

\* logout_user(): the session carries no user id.
logout_user(s) == session' = [session EXCEPT ![s] = NoUser]

\* Mutant: a failure message that tells an unknown username from a wrong
\* password.
login_failure_flash_enumerating(rows) ==
    IF rows = {} THEN "Unknown username." ELSE FlashInvalidLogin

\* The message flashed when the credentials are not accepted, whatever the
\* user lookup returned.
login_failure_flash(rows) == FlashInvalidLogin

\* What POST /login performs and answers in the current state, and the
\* user (if any) it logs in.
login_view(s, form_username, form_password, fault) ==
    LET username == strip(form_username)
        password == strip(form_password)
        q == get_by_username(username, fault)
        verified == {user \in q.rows :
                        check_password_hash(user.password_hash, password)}
        form == render_view(q.trace, current_user(s, fault), "login.html",
                            login_failure_flash(q.rows), NoData)
    IN  IF q.raised
        THEN [trace |-> q.trace, resp |-> InternalServerError, user |-> {}]
        ELSE IF verified # {}
        THEN [trace |-> q.trace, resp |-> redirect("admin_dashboard", ""),
              user |-> verified]
        ELSE [trace |-> form.trace, resp |-> form.resp, user |-> {}]

login(s, method, form_username, form_password, fault) ==
    LET req == Request("login", method, s,
                       <<form_username, form_password>>, 0)
        v == login_view(s, form_username, form_password, fault)
    IN  /\ IF method = "POST"
           THEN /\ Handled(req, v.trace, v.resp)
                /\ IF v.user # {}
                   THEN \E user \in v.user : login_user(s, user)
                   ELSE UNCHANGED session
           ELSE /\ rendered(req, <<>>, current_user(s, fault), "login.html",
                            "", NoData)
                /\ UNCHANGED session
        /\ UNCHANGED <<users, blog_posts, blog_posts_id_seq, contact_messages,
                       contact_messages_id_seq, outbox>>

logout(s, fault) ==
    LET req == Request("logout", "GET", s, <<>>, 0)
        cu == current_user(s, fault)
    IN  /\ IF cu.raised
           THEN Handled(req, cu.trace, InternalServerError) /\ UNCHANGED session
           ELSE IF ~is_authenticated(cu)
           THEN Handled(req, cu.trace, unauthorized) /\ UNCHANGED session
           ELSE /\ logout_user(s)
                /\ Handled(req, cu.trace,
                           redirect("home", FlashLoggedOut))
        /\ UNCHANGED <<users, blog_posts, blog_posts_id_seq, contact_messages,
                       contact_messages_id_seq, outbox>>

\* ------------------------------------------------------------ admin routes
\* LIMIT 5 of the dashboard's recent-posts query.
DashboardLimit == 5

first_n(seq, n) == SubSeq(seq, 1, IF Len(seq) < n THEN Len(seq) ELSE n)

\* SELECT id, title, slug, created_at FROM blog_posts
recent_columns(seq) ==
    [i \in 1 .. Len(seq) |->
        [id |-> seq[i].id, title |-> seq[i].title, slug |-> seq[i].slug]]

admin_dashboard(s, fault) ==
    LET req == Request("admin_dashboard", "GET", s, <<>>, 0)
        cu == current_user(s, fault)
    IN  /\ IF cu.raised
           THEN Handled(req, cu.trace, InternalServerError)
           ELSE IF ~is_authenticated(cu)
           THEN Handled(req, cu.trace, unauthorized)
           ELSE IF fault = "connect"
           THEN Handled(req, cu.trace, InternalServerError)
           ELSE IF fault = "execute"
           THEN Handled(req, cu.trace \o <<EvConnect, SqlCountPosts>>,
                        InternalServerError)
           ELSE rendered(req,
                         cu.trace \o <<EvConnect, SqlCountPosts,
                                       SqlCountMessages, SqlRecentPosts,
                                       EvClose>>,
                         already_loaded, "admin_dashboard.html", "",
                         [posts |-> recent_columns(
                                       first_n(newest_first(blog_posts),
                                               DashboardLimit)),
                          messages |-> <<>>,
                          counts |-> <<Cardinality(blog_posts),
                                       Cardinality(contact_messages)>>])
        /\ UNCHANGED <<users, session, blog_posts, blog_posts_id_seq,
                       contact_messages, contact_messages_id_seq, outbox>>

\* Mutant: a table without the UNIQUE constraint on slug.
unique_violation_unchecked(slug) == FALSE

\* Mutant: an INSERT that binds title and body to each other's column.
new_post_row_swapped(id, title, slug, body, tags) ==
    [id |-> id, title |-> body, slug |-> slug, body |-> title, tags |-> tags]

\* INSERT INTO blog_posts (title, slug, body, tags) VALUES (%s, %s, %s, %s)
new_post_row(id, title, slug, body, tags) ==
    [id |-> id, title |-> title, slug |-> slug, body |-> body, tags |-> tags]

\* blog_posts.slug is UNIQUE: an INSERT of a slug a row already has raises
\* psycopg2.errors.UniqueViolation.
unique_violation(slug) == \E p \in blog_posts : p.slug = slug

admin_new_post(s, method, form_title, form_slug, form_body, form_tags, fault) ==
    LET req == Request("admin_new_post", method, s,
                       <<form_title, form_slug, form_body, form_tags>>, 0)
        cu == current_user(s, fault)
        title == strip(form_title)
        slug == strip(form_slug)
        body == strip(form_body)
        tags == strip(form_tags)
        row == new_post_row(blog_posts_id_seq + 1, title, slug, body, tags)
        unchanged == UNCHANGED <<blog_posts, blog_posts_id_seq>>
    IN  /\ IF cu.raised
           THEN Handled(req, cu.trace, InternalServerError) /\ unchanged
           ELSE IF ~is_authenticated(cu)
           THEN Handled(req, cu.trace, unauthorized) /\ unchanged
           ELSE IF method # "POST"
           THEN /\ rendered(req, cu.trace, already_loaded,
                            "admin_new_post.html", "", NoData)
                /\ unchanged
           ELSE IF ~(truthy(title) /\ truthy(slug) /\ truthy(body))
           THEN /\ rendered(req, cu.trace, already_loaded,
                            "admin_new_post.html", FlashFillRequired, NoData)
                /\ unchanged
           ELSE IF fault = "connect"
           THEN Handled(req, cu.trace, InternalServerError) /\ unchanged
           ELSE IF fault = "execute"
           \* an error other than UniqueViolation: finally closes, then 500
           THEN /\ Handled(req, cu.trace \o <<EvConnect, SqlInsertPost,
                                              EvClose>>,
                           InternalServerError)
                /\ unchanged
           ELSE IF unique_violation(slug)
           \* UNIQUE (slug) violated; the id drawn from the sequence is spent
           THEN /\ blog_posts_id_seq < MaxPostSerial
                /\ blog_posts_id_seq' = blog_posts_id_seq + 1
                /\ blog_posts' = blog_posts
                /\ rendered(req, cu.trace \o <<EvConnect, SqlInsertPost,
                                               EvRollback, EvClose>>,
                            already_loaded, "admin_new_post.html",
                            FlashSlugExists, NoData)
           ELSE /\ blog_posts_id_seq < MaxPostSerial
                /\ blog_posts_id_seq' = blog_posts_id_seq + 1
                /\ blog_posts' = blog_posts \cup {row}
                /\ Handled(req, cu.trace \o <<EvConnect, SqlInsertPost,
                                              EvCommit, EvClose>>,
                           redirect("admin_dashboard", FlashPostCreated))
        /\ UNCHANGED <<users, session, contact_messages,
                       contact_messages_id_seq, outbox>>

admin_messages(s, fault) ==
    LET req == Request("admin_messages", "GET", s, <<>>, 0)
        cu == current_user(s, fault)
        q == unguarded_query(SqlMessages, fault, "connect", "execute",
                             contact_messages)
    IN  /\ IF cu.raised
           THEN Handled(req, cu.trace, InternalServerError)
           ELSE IF ~is_authenticated(cu)
           THEN Handled(req, cu.trace, unauthorized)
           ELSE IF q.raised
           THEN Handled(req, cu.trace \o q.trace, InternalServerError)
           ELSE rendered(req, cu.trace \o q.trace, already_loaded,
                         "admin_messages.html", "",
                         [NoData EXCEPT !.messages = newest_first(q.rows)])
        /\ UNCHANGED <<users, session, blog_posts, blog_posts_id_seq,
                       contact_messages, contact_messages_id_seq, outbox>>

\* Mutant: a DELETE whose WHERE clause is lost.
delete_where_id_all(rows, post_id) == {}

\* DELETE FROM blog_posts WHERE id = %s
delete_where_id(rows, post_id) == {p \in rows : p.id # post_id}

admin_delete_post(s, post_id, fault) ==
    LET req == Request("admin_delete_post", "POST", s, <<>>, post_id)
        cu == current_user(s, fault)
    IN  /\ IF cu.raised
           THEN Handled(req, cu.trace, InternalServerError)
                /\ UNCHANGED blog_posts
           ELSE IF ~is_authenticated(cu)
           THEN Handled(req, cu.trace, unauthorized) /\ UNCHANGED blog_posts
           ELSE IF fault = "connect"
           THEN Handled(req, cu.trace, InternalServerError)
                /\ UNCHANGED blog_posts
           ELSE IF fault = "execute"
           THEN /\ Handled(req, cu.trace \o <<EvConnect, SqlDeletePost>>,
                           InternalServerError)
                /\ UNCHANGED blog_posts
           ELSE /\ blog_posts' = delete_where_id(blog_posts, post_id)
                /\ Handled(req, cu.trace \o <<EvConnect, SqlDeletePost,
                                              EvCommit, EvClose>>,
                           redirect("admin_dashboard", FlashPostDeleted))
        /\ UNCHANGED <<users, session, blog_posts_id_seq, contact_messages,
                       contact_messages_id_seq, outbox>>

\* ------------------------------------------------------------- environment
\* An account is deleted out of band (the application never writes users).
RemoveUser(u) ==
    /\ u \in users
    /\ users' = users \ {u}
    /\ Handled(Request("RemoveUser", "", "s1", <<>>, u.id), <<>>,
               [kind |-> "none", target |-> "", flash |-> "",
                data |-> NoData])
    /\ UNCHANGED <<session, blog_posts, blog_posts_id_seq, contact_messages,
                   contact_messages_id_seq, outbox>>

\* ---------------------------------------------------------- specifications
\* Five specifications over the same state and the same handlers; each
\* draws the inputs its properties are about from the full input sets and
\* keeps the other handlers' inputs to one representative.
ValidPostForm == << <<"u">>, <<"x", " ">>, <<"c">>, <<>> >>
ValidContactForm == << <<"o">>, <<"e">>, <<"m">> >>
NoForm2 == << <<>>, <<>> >>
NoForm3 == << <<>>, <<>>, <<>> >>
NoForm4 == << <<>>, <<>>, <<>>, <<>> >>

\* Sessions and login: every credential pair, two client sessions, accounts
\* deleted out of band, the user lookup or the handler's statement failing.
AuthFaults == {"none", "load_user.execute", "execute"}

NextAuth ==
    \/ \E s \in Sessions, form \in LoginForms, f \in AuthFaults :
          login(s, "POST", form[1], form[2], f)
    \/ \E s \in Sessions : login(s, "GET", NoForm2[1], NoForm2[2], "none")
    \/ \E s \in Sessions, f \in AuthFaults : logout(s, f)
    \/ \E s \in Sessions, f \in AuthFaults : admin_dashboard(s, f)
    \/ \E s \in Sessions, f \in AuthFaults : admin_messages(s, f)
    \/ \E s \in Sessions :
          admin_new_post(s, "POST", ValidPostForm[1], ValidPostForm[2],
                         ValidPostForm[3], ValidPostForm[4], "none")
    \/ \E s \in Sessions : admin_new_post(s, "GET", NoForm4[1], NoForm4[2],
                                          NoForm4[3], NoForm4[4], "none")
    \/ \E s \in Sessions, i \in {1, 2} : admin_delete_post(s, i, "none")
    \/ \E u \in users : RemoveUser(u)

SpecAuth == Init /\ [][NextAuth]_vars

\* Access control: every protected route, by two client sessions that log
\* in and out and whose account may be deleted, over tables that hold posts
\* and messages.
NextAccess ==
    \/ \E s \in Sessions : login(s, "POST", <<"a">>, <<"p">>, "none")
    \/ \E s \in Sessions : logout(s, "none")
    \/ \E s \in Sessions, f \in AuthFaults : admin_dashboard(s, f)
    \/ \E s \in Sessions, f \in AuthFaults : admin_messages(s, f)
    \/ \E s \in Sessions, m \in Methods, f \in AuthFaults :
          admin_new_post(s, m, ValidPostForm[1], ValidPostForm[2],
                         ValidPostForm[3], ValidPostForm[4], f)
    \/ \E s \in Sessions, i \in PostIds, f \in AuthFaults :
          admin_delete_post(s, i, f)
    \/ contact("s1", "POST", ValidContactForm[1], ValidContactForm[2],
               ValidContactForm[3], "none")
    \/ \E u \in users : RemoveUser(u)

SpecAccess == Init /\ [][NextAccess]_vars

\* Blog posts: every new-post form, every id and slug, one admin session.
BlogFaults == {"none", "execute"}

NextBlog ==
    \/ login("s1", "POST", <<"a">>, <<"p">>, "none")
    \/ logout("s1", "none")
    \/ \E form \in PostForms, f \in BlogFaults :
          admin_new_post("s1", "POST", form[1], form[2], form[3], form[4], f)
    \/ \E i \in PostIds, f \in BlogFaults : admin_delete_post("s1", i, f)
    \/ \E slug \in SlugPaths, f \in BlogFaults : blog_post("s1", slug, f)
    \/ blog("s1", "none")
    \/ admin_dashboard("s1", "none")

SpecBlog == Init /\ [][NextBlog]_vars

\* Form handling: every contact and new-post form, the store and the mail
\* relay failing, one session that may or may not be logged in.
FormFaults == {"none", "connect", "execute", "mail"}

\* The new-post forms with a blank required field, and one valid form.
FormsPostForms ==
    {form \in PostForms : \E i \in 1 .. 3 : strip(form[i]) = <<>>}
        \cup {ValidPostForm}

NextForms ==
    \/ login("s1", "POST", <<"a">>, <<"p">>, "none")
    \/ logout("s1", "none")
    \/ \E form \in FormsPostForms :
          admin_new_post("s1", "POST", form[1], form[2], form[3], form[4],
                         "none")
    \/ \E form \in ContactForms, f \in FormFaults :
          contact("s1", "POST", form[1], form[2], form[3], f)
    \/ contact("s1", "GET", NoForm3[1], NoForm3[2], NoForm3[3], "none")
    \/ admin_messages("s1", "none")
    \/ home("s1", "none")

SpecForms == Init /\ [][NextForms]_vars

\* Store connections: every handler, every point of failure.
NextFaults ==
    \/ \E f \in Faults : home("s1", f)
    \/ \E f \in Faults : blog("s1", f)
    \/ \E f \in Faults : blog_post("s1", <<"x">>, f)
    \/ \E f \in Faults :
          contact("s1", "POST", ValidContactForm[1], ValidContactForm[2],
                  ValidContactForm[3], f)
    \/ \E p \in {<<"p">>, <<"q">>}, f \in Faults :
          login("s1", "POST", <<"a">>, p, f)
    \/ \E f \in Faults : logout("s1", f)
    \/ \E f \in Faults : admin_dashboard("s1", f)
    \/ \E f \in Faults :
          admin_new_post("s1", "POST", ValidPostForm[1], ValidPostForm[2],
                         ValidPostForm[3], ValidPostForm[4], f)
    \/ \E f \in Faults : admin_messages("s1", f)
    \/ \E i \in PostIds, f \in Faults : admin_delete_post("s1", i, f)
    \/ \E u \in users : RemoveUser(u)

SpecFaults == Init /\ [][NextFaults]_vars

\* ------------------------------------------------------------- properties
ProtectedOps ==
    {"admin_dashboard", "admin_new_post", "admin_messages",
     "admin_delete_post"}

\* The events of a trace other than load_user's lookup of the session's user.
HandlerEvents(trace) ==
    {trace[i] : i \in 1 .. Len(trace)} \ {EvConnect, EvClose, SqlUserById}

\* The user lookup raised: the only way a request by a session that carries
\* a user id ends before the login check has an answer.
LookupRaised(s, l) ==
    /\ session[s] # NoUser
    /\ l.trace = <<EvConnect, SqlUserById>>
    /\ l.resp = InternalServerError

\* C1: a protected operation executes its store statements only for an
\* Authenticated session; a request by an Anonymous session is redirected to
\* login, is given no dashboard or message data and leaves blog_posts and
\* contact_messages unchanged.
C1_ProtectedRequiresAuthenticated ==
    [][\A s \in Sessions :
         (last'.req.op \in ProtectedOps /\ last'.req.sess = s) =>
            /\ HandlerEvents(last'.trace) # {} => Authenticated(s)
            /\ ~Authenticated(s) =>
                 /\ last'.resp = unauthorized \/ LookupRaised(s, last')
                 /\ last'.resp.data = NoData
                 /\ blog_posts' = blog_posts
                 /\ blog_posts_id_seq' = blog_posts_id_seq
                 /\ contact_messages' = contact_messages]_vars

\* An Anonymous session asked to delete an existing post and was redirected.
C1_Witness ==
    /\ last.req.op = "admin_delete_post"
    /\ session[last.req.sess] = NoUser
    /\ \E p \in blog_posts : p.id = last.req.id
    /\ last.trace = <<>>
    /\ last.resp = unauthorized

\* The session s comes to carry a user id it did not carry, or comes to
\* resolve to a user.
Established(s) ==
    \/ session'[s] # NoUser /\ session'[s] # session[s]
    \/ ~Authenticated(s) /\ Authenticated(s)'

\* C2 as stated: a session becomes Authenticated(user_id) only by a POST
\* /login whose submitted username is an existing user's and whose submitted
\* password verifies against that user's hash, and is bound to that user.
C2_AsStated ==
    [][\A s \in Sessions :
         Established(s) =>
            /\ last'.req.op = "login" /\ last'.req.method = "POST"
            /\ last'.req.sess = s
            /\ \E u \in users :
                  /\ u.id = session'[s]
                  /\ u.username = last'.req.args[1]
                  /\ u.password_hash.of = last'.req.args[2]]_vars

\* C2 amended: the same, of the submitted username and password after
\* whitespace trimming.
C2_LoginOnlyByVerifiedCredentials ==
    [][\A s \in Sessions :
         Established(s) =>
            /\ last'.req.op = "login" /\ last'.req.method = "POST"
            /\ last'.req.sess = s
            /\ \E u \in users :
                  /\ u.id = session'[s]
                  /\ u.username = strip(last'.req.args[1])
                  /\ u.password_hash.of = strip(last'.req.args[2])]_vars

\* A login with padded credentials bound the session to the first account.
C2_Witness ==
    /\ last.req.op = "login" /\ last.req.method = "POST"
    /\ last.req.args = << <<" ", "a">>, <<"p", " ">> >>
    /\ session[last.req.sess] = 1
    /\ last.resp = redirect("admin_dashboard", "")

\* The submitted credentials, once trimmed, are those of an account.
CredentialsAccepted(args) ==
    \E u \in users : /\ u.username = strip(args[1])
                    /\ u.password_hash.of = strip(args[2])

UsernameExists(args) == \E u \in users : u.username = strip(args[1])

\* C3: in every state, any two login forms that are not accepted, whether
\* their usernames exist or not, are answered alike by POST /login after
\* the same store events: the login form with the one generic message; and
\* that is how every failed login was answered.
C3_FailedLoginIndistinguishable ==
    /\ \A s \in Sessions, f1 \in LoginForms, f2 \in LoginForms :
          (~CredentialsAccepted(f1) /\ ~CredentialsAccepted(f2))
          => login_view(s, f1[1], f1[2], "none")
                = login_view(s, f2[1], f2[2], "none")
    /\ (/\ last.req.op = "login" /\ last.req.method = "POST"
        /\ ~CredentialsAccepted(last.req.args)
        /\ last.resp.kind # "error")
       => /\ last.resp = render_template("login.html", FlashInvalidLogin,
                                         NoData)
          /\ SubSeq(last.trace, 1, 3) = <<EvConnect, SqlUserByName, EvClose>>

\* A login with a username no account has was answered with the generic
\* message, exactly as a wrong password for an existing account would be.
C3_Witness ==
    /\ last.req.op = "login" /\ last.req.method = "POST"
    /\ ~UsernameExists(last.req.args)
    /\ last.resp = render_template("login.html", FlashInvalidLogin, NoData)
    /\ \E f \in LoginForms :
          /\ UsernameExists(f) /\ ~CredentialsAccepted(f)
          /\ login_view(last.req.sess, f[1], f[2], "none").resp = last.resp

\* C8: logout makes an Authenticated session Anonymous; a session whose user
\* id resolves to no user row is handled as Anonymous (protected routes and
\* logout redirect to login, no error), and a session that carries no user
\* id stays so until a POST /login.
C8_LogoutAndStaleSession ==
    [][\A s \in Sessions :
         /\ (last'.req.op = "logout" /\ last'.req.sess = s
             /\ Authenticated(s) /\ last'.resp.kind # "error")
            => /\ session'[s] = NoUser
               /\ last'.resp = redirect("home", FlashLoggedOut)
         /\ (last'.req.op \in ProtectedOps \cup {"logout"}
             /\ last'.req.sess = s /\ ~Authenticated(s))
            => /\ last'.resp = unauthorized \/ LookupRaised(s, last')
               /\ session'[s] = session[s]
         /\ (session[s] = NoUser /\ session'[s] # NoUser)
            => last'.req.op = "login" /\ last'.req.sess = s]_vars

\* A session still carrying the id of a deleted account asked for a
\* protected route and was redirected to login.
C8_Witness ==
    /\ last.req.op \in ProtectedOps
    /\ session[last.req.sess] # NoUser
    /\ ~Authenticated(last.req.sess)
    /\ last.trace = <<EvConnect, SqlUserById, EvClose>>
    /\ last.resp = unauthorized

\* No two posts share a slug.
SlugUnique == \A p, q \in blog_posts : p.slug = q.slug => p = q

\* The form's required fields are non-empty once trimmed.
PostFormValid(form) ==
    strip(form[1]) # <<>> /\ strip(form[2]) # <<>> /\ strip(form[3]) # <<>>

\* What GET /blog/<slug> answers when nothing fails.
GetBlogPost(slug) == blog_post_view("s1", slug, "none").resp

ShowsPost(p) ==
    render_template("blog_post.html", "", [NoData EXCEPT !.posts = <<p>>])

\* C4: slugs stay unique, and when an authenticated admin submits a valid
\* post whose (trimmed) slug a post already has, the answer is the form with
\* the 'slug already exists' error, no row is added, and every existing post
\* keeps its fields and is answered by GET /blog/<slug> as before.
C4_DuplicateSlugConflict ==
    [][/\ SlugUnique'
       /\ \A form \in PostForms :
            (/\ admin_new_post("s1", "POST", form[1], form[2], form[3],
                               form[4], "none")
             /\ Authenticated("s1")
             /\ PostFormValid(form)
             /\ \E p \in blog_posts : p.slug = strip(form[2]))
            => /\ last'.resp = render_template("admin_new_post.html",
                                               FlashSlugExists, NoData)
               /\ blog_posts' = blog_posts
               /\ \A p \in blog_posts : GetBlogPost(p.slug)' = GetBlogPost(p.slug)
               /\ \A p \in blog_posts :
                    slug_rule_matches(p.slug) => GetBlogPost(p.slug)' = ShowsPost(p)
      ]_vars

\* A post with another title but a slug already in use was refused, and the
\* post that has the slug is still there.
C4_Witness ==
    /\ last.req.op = "admin_new_post" /\ last.req.method = "POST"
    /\ last.resp = render_template("admin_new_post.html", FlashSlugExists,
                                   NoData)
    /\ \E p \in blog_posts : /\ p.slug = strip(last.req.args[2])
                            /\ p.title # strip(last.req.args[1])
                            /\ GetBlogPost(p.slug) = ShowsPost(p)

\* C5: a delete by an authenticated admin leaves no post with that id,
\* removes nothing else, removes nothing at all when no post has the id
\* (deleted before, or never issued), raises no error and answers with the
\* same redirect to the dashboard.
C5_DeleteIdempotent ==
    [][\A i \in PostIds :
         (admin_delete_post("s1", i, "none") /\ Authenticated("s1"))
         => /\ \A p \in blog_posts' : p.id # i
            /\ blog_posts' = {p \in blog_posts : p.id # i}
            /\ (\A p \in blog_posts : p.id # i) => blog_posts' = blog_posts
            /\ last'.resp = redirect("admin_dashboard", FlashPostDeleted)
            /\ last'.trace = <<EvConnect, SqlUserById, EvClose, EvConnect,
                               SqlDeletePost, EvCommit, EvClose>>]_vars

\* A delete of an id no post has was answered with the redirect while the
\* other posts stayed.
C5_Witness ==
    /\ last.req.op = "admin_delete_post"
    /\ last.resp = redirect("admin_dashboard", FlashPostDeleted)
    /\ \A p \in blog_posts : p.id # last.req.id
    /\ blog_posts # {}

\* last is a POST /admin/blog/new that created a post.
PostCreated ==
    /\ last.req.op = "admin_new_post" /\ last.req.method = "POST"
    /\ last.resp = redirect("admin_dashboard", FlashPostCreated)

\* C10 as stated: a created post is returned by GET /blog/{slug} with title,
\* body and tags equal to the submitted values.
C10_AsStated ==
    PostCreated =>
       LET r == GetBlogPost(last.req.args[2])
       IN  /\ r.kind = "render"
           /\ Len(r.data.posts) = 1
           /\ r.data.posts[1].title = last.req.args[1]
           /\ r.data.posts[1].body = last.req.args[3]
           /\ r.data.posts[1].tags = last.req.args[4]

\* The stored post a successful creation leaves.
CreatedPost ==
    CHOOSE p \in blog_posts : p.slug = strip(last.req.args[2])

\* C10 amended: a created post holds the submitted title, slug, body and
\* tags after whitespace trimming; GET /blog/{slug} returns every stored post
\* whose slug has no "/" until it is deleted, redirects to the listing for a
\* one-segment slug no post has, and is a 404 for a slug with a "/".
C10_CreateReadRoundTrip ==
    [][/\ PostCreated' =>
            /\ \E p \in blog_posts' : p.slug = strip(last'.req.args[2])
            /\ CreatedPost'.title = strip(last'.req.args[1])
            /\ CreatedPost'.body = strip(last'.req.args[3])
            /\ CreatedPost'.tags = strip(last'.req.args[4])
            /\ CreatedPost' \notin blog_posts
       /\ \A p \in blog_posts' :
            GetBlogPost(p.slug)' = IF slug_rule_matches(p.slug)
                                   THEN ShowsPost(p) ELSE NotFound
       /\ \A slug \in SlugPaths :
            (\A p \in blog_posts' : p.slug # slug) =>
               GetBlogPost(slug)' = IF slug_rule_matches(slug)
                                    THEN redirect("blog", "") ELSE NotFound
       /\ \A p \in blog_posts :
            p \notin blog_posts' =>
               last'.req.op = "admin_delete_post" /\ last'.req.id = p.id
      ]_vars

\* A post submitted with padded title, body and tags was created and GET
\* /blog/x shows it with the trimmed values.
C10_Witness ==
    /\ PostCreated
    /\ last.req.args = << <<" ", "t">>, <<"x">>, <<"b", " ">>, <<"g", " ">> >>
    /\ GetBlogPost(<<"x">>).kind = "render"
    /\ GetBlogPost(<<"x">>).data.posts[1].title = <<"t">>
    /\ GetBlogPost(<<"x">>).data.posts[1].body = <<"b">>
    /\ GetBlogPost(<<"x">>).data.posts[1].tags = <<"g">>

\* How many times event e occurs in a trace.
Count(trace, e) == Cardinality({i \in 1 .. Len(trace) : trace[i] = e})

\* C6: when a request has completed, normally or by a query error, every
\* connection it opened has been closed.
C6_ConnectionsReleased ==
    Count(last.trace, EvConnect) = Count(last.trace, EvClose)

ContactFormValid(form) ==
    strip(form[1]) # <<>> /\ strip(form[2]) # <<>> /\ strip(form[3]) # <<>>

\* last is a POST whose form has a required field that is empty once
\* trimmed, and (for the admin form) the login check let it through.
InvalidSubmission ==
    \/ /\ last.req.op = "contact" /\ last.req.method = "POST"
       /\ ~ContactFormValid(last.req.args)
    \/ /\ last.req.op = "admin_new_post" /\ last.req.method = "POST"
       /\ ~PostFormValid(last.req.args)
       /\ last.resp # unauthorized

FormWithError ==
    IF last.req.op = "contact"
    THEN render_template("contact.html", FlashFillAll, NoData)
    ELSE render_template("admin_new_post.html", FlashFillRequired, NoData)

\* C7 as stated: such a submission is answered with the form and an error
\* and no store connection is opened.
C7_AsStated ==
    InvalidSubmission =>
       /\ last.resp = FormWithError
       /\ Count(last.trace, EvConnect) = 0

\* The events of load_user's lookup for session s: none for a session that
\* carries no user id.
UserLookupOnly(s) ==
    IF session[s] = NoUser THEN <<>> ELSE <<EvConnect, SqlUserById, EvClose>>

\* C7 amended: such a submission is answered with the form and an error; the
\* only store connection of the request is the one load_user opens and
\* closes to resolve the user id of a session that carries one; no mail is
\* sent and contact_messages and blog_posts are unchanged.
C7_InvalidSubmissionRejected ==
    [][InvalidSubmission' =>
          /\ last'.resp = FormWithError'
          /\ last'.trace = UserLookupOnly(last'.req.sess)
          /\ outbox' = outbox
          /\ contact_messages' = contact_messages
          /\ contact_messages_id_seq' = contact_messages_id_seq
          /\ blog_posts' = blog_posts
          /\ blog_posts_id_seq' = blog_posts_id_seq]_vars

\* A logged-in admin's post with a blank field was answered with the form
\* and the error after the user lookup alone.
C7_Witness ==
    /\ InvalidSubmission
    /\ last.req.op = "admin_new_post"
    /\ last.resp = FormWithError
    /\ last.trace = <<EvConnect, SqlUserById, EvClose>>

\* last is a valid contact submission whose row was committed.
ContactCommitted ==
    /\ last.req.op = "contact" /\ last.req.method = "POST"
    /\ ContactFormValid(last.req.args)
    /\ Count(last.trace, EvCommit) = 1

\* C9 as stated: a valid contact submission commits its row and ends with
\* the redirect to /contact carrying the success message, whether or not the
\* notification dispatch fails.
C9_AsStated ==
    ContactCommitted =>
       /\ \E r \in contact_messages :
             /\ r.name = strip(last.req.args[1])
             /\ r.email = strip(last.req.args[2])
             /\ r.message = strip(last.req.args[3])
       /\ last.resp = redirect("contact", FlashThanks)

\* C9 amended: a valid contact submission commits exactly one row with the
\* trimmed name, email and message before mail.send is attempted; when the
\* dispatch fails the row stays committed and nothing is rolled back, but
\* the request ends with an unhandled error (500) and not with the redirect
\* to /contact and the success message that a successful dispatch ends with.
C9_ContactCommitThenMail ==
    [][\A form \in ContactForms, f \in {"none", "mail"} :
         (/\ contact("s1", "POST", form[1], form[2], form[3], f)
          /\ ContactFormValid(form))
         => /\ \E r \in contact_messages' :
                  /\ r \notin contact_messages
                  /\ contact_messages' = contact_messages \cup {r}
                  /\ r.name = strip(form[1])
                  /\ r.email = strip(form[2])
                  /\ r.message = strip(form[3])
            /\ Cardinality(contact_messages') =
                  Cardinality(contact_messages) + 1
            /\ last'.trace = <<EvConnect, SqlInsertMessage, EvCommit, EvClose,
                               EvMailSend>>
            /\ IF f = "mail"
               THEN /\ outbox' = outbox
                    /\ last'.resp = InternalServerError
               ELSE /\ Len(outbox') = Len(outbox) + 1
                    /\ outbox'[Len(outbox')].email = strip(form[2])
                    /\ last'.resp = redirect("contact", FlashThanks)]_vars

\* A valid submission whose notification failed: the row is committed, no
\* mail went out and the request ended in the error.
C9_Witness ==
    /\ ContactCommitted
    /\ last.resp = InternalServerError
    /\ \E r \in contact_messages : r.name = strip(last.req.args[1])
    /\ Len(outbox) < Cardinality(contact_messages)

=============================================================================
